---- MODULE Spec2Model ----
(***************************************************************************)
(* Autocall payoff evaluation (src/els/class_els.py) and the path          *)
(* simulator that builds its price tables (src/process/GBM.py).            *)
(*                                                                         *)
(* An ELS object is a record of the fields its constructor stores; its     *)
(* price table df maps a date (counted in months from the start date) to   *)
(* a row asset -> price.  Real numbers are exact rationals <<n, d>> in     *)
(* lowest terms with d > 0, so that a price ratio is the quotient the code *)
(* computes and not a rounded or rescaled stand-in.  Python's 0-based      *)
(* positions are kept in the operators' arguments (i, moment) and turned   *)
(* into 1-based sequence positions where a sequence is indexed.            *)
(***************************************************************************)
EXTENDS Integers, Sequences, FiniteSets, TLC

VARIABLES els, result, pc, rng, sims

vars == <<els, result, pc, rng, sims>>

----------------------------------------------------------------------------
(* Exact rational arithmetic for Python's float arithmetic.                *)

Abs(x) == IF x < 0 THEN -x ELSE x

RECURSIVE GCD(_, _)
GCD(a, b) == IF b = 0 THEN a ELSE GCD(b, a % b)

Rat(n, d) ==
    LET g == GCD(Abs(n), Abs(d))
        s == IF d < 0 THEN -1 ELSE 1
    IN  <<(s * n) \div g, (s * d) \div g>>

RLess(x, y) == x[1] * y[2] < y[1] * x[2]
RGreater(x, y) == RLess(y, x)
RGeq(x, y) == ~RLess(x, y)
RAdd(x, y) == Rat(x[1] * y[2] + y[1] * x[2], x[2] * y[2])
RSub(x, y) == Rat(x[1] * y[2] - y[1] * x[2], x[2] * y[2])
RMul(x, y) == Rat(x[1] * y[1], x[2] * y[2])
RDiv(x, y) == Rat(x[1] * y[2], x[2] * y[1])
RInt(k) == <<k, 1>>

----------------------------------------------------------------------------
(* Bounds of the model and the inputs drawn in Init.                       *)

MaxPrice == 3

MonthsPerYear == 12

Assets == {"A", "B"}
Prices == 1..MaxPrice
StartPrices == {2, 4}
StartRows == {s \in [Assets -> StartPrices] : s["A"] = 2}
Coupons == {Rat(6, 100)}
Barriers == {Rat(1, 2), Rat(1, 1)}

\* Dates of the price table of the products observed every 6 or 12 months.
TableDates == {0, 6, 12}

PriceTables ==
    {[d \in TableDates |-> IF d = 0 THEN s ELSE t[d]] :
        s \in StartRows, t \in [TableDates \ {0} -> [Assets -> Prices]]}

\* The same tables, and each of them with one more row, a date after the last
\* observation on which every price is the lowest one.
AfterDate == {18}
LongTables ==
    PriceTables \cup
    {[d \in TableDates \cup AfterDate |-> IF d \in AfterDate THEN [a \in Assets |-> 1] ELSE t[d]] :
        t \in PriceTables}

BarrierLists(n) == [1..n -> Barriers]

KIBarriers == {Rat(1, 2)}
MPBarriers == {Rat(1, 2), Rat(1, 1)}
LizardLevels == {Rat(1, 2)}
LizardDicts(n) == UNION {[K -> LizardLevels] : K \in SUBSET (1..n)}
LizardCoupons == {1, 2}

\* Monthly price tables: each asset's price makes at most one move, in month
\* c, from its start price p0 to p1 (no move when c is past the last month).
StepPaths(p0) ==
    {[d \in 0..MonthsPerYear |-> IF d < c THEN p0 ELSE p1] :
        p1 \in Prices, c \in 1..(MonthsPerYear + 1)}

MonthlyStartRows == StartRows

MonthlyTablesFrom(s) ==
    {[d \in 0..MonthsPerYear |-> [a \in Assets |-> IF a = "A" THEN pa[d] ELSE pb[d]]] :
        pa \in StepPaths(s["A"]), pb \in StepPaths(s["B"])}

MonthlyTables == UNION {MonthlyTablesFrom(s) : s \in MonthlyStartRows}

None == <<>>

----------------------------------------------------------------------------
(* SimpleELS                                                               *)

\* els.gen_schedule.schedule_generator: maturity*12/periods observation
\* dates, strictly increasing, the first one after the start date.
schedule_generator(maturity, periods, start_date) ==
    [k \in 1..((maturity * MonthsPerYear) \div periods) |-> start_date + k * periods]

\* SimpleELS.get_schedule, and MPELS.get_schedule which overrides it with a
\* monthly schedule (every method that calls self.get_schedule() gets the
\* override on an MPELS object).
get_schedule(self) ==
    IF self.cls = "MPELS"
    THEN schedule_generator(self.maturity, 1, self.start_date)
    ELSE schedule_generator(self.maturity, self.periods, self.start_date)

get_initial_price(self) ==
    [a \in 1..Len(self.underlying) |-> self.df[self.start_date][self.underlying[a]]]

get_schedule_price(self) ==
    [k \in 1..Len(get_schedule(self)) |->
        [a \in 1..Len(self.underlying) |-> self.df[get_schedule(self)[k]][self.underlying[a]]]]

get_ratio_price(self) ==
    [k \in 1..Len(get_schedule(self)) |->
        [a \in 1..Len(self.underlying) |->
            Rat(get_schedule_price(self)[k][a], get_initial_price(self)[a])]]

\* np.min over a row of ratios.
np_min(row) == CHOOSE x \in {row[a] : a \in DOMAIN row} :
                  \A a \in DOMAIN row : ~RLess(row[a], x)

\* DataFrame.iloc[i] for a Python position i, negative positions from the end.
iloc(frame, i) == IF i < 0 THEN frame[Len(frame) + 1 + i] ELSE frame[i + 1]

\* Early redemption also at a ratio equal to the barrier.
Simple_cond_KO_inclusive(self, i) ==
    RGeq(np_min(iloc(get_ratio_price(self), i)), self.barrier[i + 1])

Simple_cond_KO(self, i) ==
    RGreater(np_min(iloc(get_ratio_price(self), i)), self.barrier[i + 1])

\* The loss test read off the first observation instead of the last.
Simple_cond_loss_first_row(self) ==
    RLess(np_min(iloc(get_ratio_price(self), 0)), self.barrier[Len(self.barrier)])

Simple_cond_loss(self) ==
    RLess(np_min(iloc(get_ratio_price(self), -1)), self.barrier[Len(self.barrier)])

coupon_payoff(self, i) ==
    RDiv(RMul(RInt(self.periods * (i + 1)), self.coupon), RInt(MonthsPerYear))

RECURSIVE SimpleELS_loop(_, _)
SimpleELS_loop(self, i) ==
    IF i >= Len(self.barrier) THEN None
    ELSE IF Simple_cond_KO(self, i)
         THEN <<self.periods * (i + 1), coupon_payoff(self, i), <<"EarlyRedeemed">> >>
    ELSE IF i = Len(self.barrier) - 1 /\ Simple_cond_loss(self)
         THEN <<self.periods * (i + 1),
                RSub(np_min(iloc(get_ratio_price(self), -1)), RInt(1)),
                <<"MaturityRedeemed">> >>
    ELSE SimpleELS_loop(self, i + 1)

SimpleELS_get_result(self) == SimpleELS_loop(self, 0)

SimpleELS_init(underlying, start_date, maturity, periods, coupon, barrier, df) ==
    [cls |-> "SimpleELS", underlying |-> underlying, start_date |-> start_date,
     maturity |-> maturity, periods |-> periods, coupon |-> coupon,
     barrier |-> barrier, df |-> df]

----------------------------------------------------------------------------
(* Erase3To1ELS                                                            *)

\* The columns of a frame, in column order, that belong to a set of columns.
RECURSIVE columns_in(_, _, _)
columns_in(n, a, keep) ==
    IF a > n THEN <<>>
    ELSE (IF a \in keep THEN <<a>> ELSE <<>>) \o columns_in(n, a + 1, keep)

\* df_ratio.iloc[moment:, :] = value, where value holds the columns cols of
\* df_ratio from row moment on: a one-column block is broadcast to every
\* column, a block as wide as the frame is stored column by column
\* (iloc does not align on labels), any other width does not fit.
iloc_set_rows(df_ratio, moment, cols) ==
    [k \in DOMAIN df_ratio |->
        IF k - 1 < moment THEN df_ratio[k]
        ELSE [a \in DOMAIN df_ratio[k] |->
                 IF Len(cols) = 1 THEN df_ratio[k][cols[1]] ELSE df_ratio[k][cols[a]]]]

worst_index(self) ==
    LET df_ratio == get_ratio_price(self)
        row == iloc(df_ratio, self.moment - 1)
    IN  columns_in(Len(self.underlying), 1, {a \in DOMAIN row : row[a] = np_min(row)})

\* The ratios returned without the rows after the lock overwritten.
get_ratio_3to1_price_unlocked(self) == get_ratio_price(self)

get_ratio_3to1_price(self) ==
    iloc_set_rows(get_ratio_price(self), self.moment, worst_index(self))

\* Whether the assignment in get_ratio_3to1_price fits (otherwise ValueError).
fits_3to1(self) ==
    Len(worst_index(self)) \in {1, Len(self.underlying)}

\* Whether the frame get_ratio_price hands out shares its cells with self.df.
\* The frame is the quotient of line 60, which pandas builds as a new frame
\* (as is the selection of get_schedule_price it is computed from).
ratio_frame_shares_df_in_place(self) == TRUE

ratio_frame_shares_df(self) == FALSE

\* self.df with the assignment of line 121 written through to its cells: the
\* rows of the observation dates from the lock on take, in every underlying's
\* column, the cell of the locked column.
df_written_through(self) ==
    LET sched == get_schedule(self)
        col == self.underlying[worst_index(self)[1]]
        late == {sched[k] : k \in {j \in 1..Len(sched) : j - 1 >= self.moment}}
        cols == {self.underlying[a] : a \in 1..Len(self.underlying)}
    IN  [d \in DOMAIN self.df |->
            IF d \in late
            THEN [a \in DOMAIN self.df[d] |->
                     IF a \in cols THEN self.df[d][col] ELSE self.df[d][a]]
            ELSE self.df[d]]

\* self.df once get_ratio_3to1_price has run.
df_after_3to1(self) ==
    IF ratio_frame_shares_df(self) THEN df_written_through(self) ELSE self.df

Erase_cond_KO(self, i) ==
    RGreater(np_min(iloc(get_ratio_3to1_price(self), i)), self.barrier[i + 1])

Erase_cond_loss(self) ==
    RLess(np_min(iloc(get_ratio_3to1_price(self), -1)), self.barrier[Len(self.barrier)])

RECURSIVE Erase3To1ELS_loop(_, _)
Erase3To1ELS_loop(self, i) ==
    IF i >= Len(self.barrier) THEN None
    ELSE IF ~fits_3to1(self) THEN <<"raise", "ValueError">>
    ELSE IF Erase_cond_KO(self, i)
         THEN <<self.periods * (i + 1), coupon_payoff(self, i), <<"EarlyRedeemed">> >>
    ELSE IF i = Len(self.barrier) - 1 /\ Erase_cond_loss(self)
         THEN <<self.periods * (i + 1),
                RSub(np_min(iloc(get_ratio_3to1_price(self), -1)), RInt(1)),
                <<"MaturityRedeemed">> >>
    ELSE Erase3To1ELS_loop(self, i + 1)

Erase3To1ELS_get_result(self) == Erase3To1ELS_loop(self, 0)

Erase3To1ELS_init(underlying, start_date, maturity, periods, coupon, barrier, moment, df) ==
    [cls |-> "Erase3To1ELS", underlying |-> underlying, start_date |-> start_date,
     maturity |-> maturity, periods |-> periods, coupon |-> coupon,
     barrier |-> barrier, df |-> df, moment |-> moment]

----------------------------------------------------------------------------
(* KIELS                                                                   *)

\* The knock-in monitored on the observation dates only.
worst_ratio_observed(self) ==
    LET all == {get_ratio_price(self)[k][a] :
                   k \in 1..Len(get_schedule(self)), a \in 1..Len(self.underlying)}
    IN  CHOOSE x \in all : \A y \in all : ~RLess(y, x)

\* min over rows and columns of df.loc[start_date : schedule[-1]] / initial.
worst_ratio(self) ==
    LET sched == get_schedule(self)
        last  == sched[Len(sched)]
        all   == {Rat(self.df[d][self.underlying[a]], get_initial_price(self)[a]) :
                     d \in {x \in DOMAIN self.df : self.start_date <= x /\ x <= last},
                     a \in 1..Len(self.underlying)}
    IN  CHOOSE x \in all : \A y \in all : ~RLess(y, x)

KI_hit(self) == IF RGeq(worst_ratio(self), self.KI_barrier) THEN FALSE ELSE TRUE

RECURSIVE KIELS_loop(_, _, _)
KIELS_loop(self, hit, i) ==
    IF i >= Len(self.barrier) THEN None
    ELSE IF Simple_cond_KO(self, i)
         THEN <<self.periods * (i + 1), coupon_payoff(self, i), <<"EarlyRedeemed">> >>
    ELSE IF i = Len(self.barrier) - 1 /\ Simple_cond_loss(self)
         THEN IF hit
              THEN <<self.periods * (i + 1),
                     RSub(np_min(iloc(get_ratio_price(self), -1)), RInt(1)),
                     <<"KnockInLoss">> >>
              ELSE <<self.periods * (i + 1), coupon_payoff(self, i),
                     <<"NoKnockInRedeemed">> >>
    ELSE KIELS_loop(self, hit, i + 1)

KIELS_get_result(self) == KIELS_loop(self, KI_hit(self), 0)

KIELS_init(underlying, start_date, maturity, periods, coupon, barrier, KI_barrier, df) ==
    [cls |-> "KIELS", underlying |-> underlying, start_date |-> start_date,
     maturity |-> maturity, periods |-> periods, coupon |-> coupon,
     barrier |-> barrier, df |-> df, KI_barrier |-> KI_barrier]

----------------------------------------------------------------------------
(* LizardELS and LizardKIELS                                               *)

\* A ratio equal to the barrier counted as below it.
Lizard_cond_not_KO_inclusive(self, i) ==
    ~RGreater(np_min(iloc(get_ratio_price(self), i)), self.barrier[i + 1])

Lizard_cond_not_KO(self, i) ==
    RLess(np_min(iloc(get_ratio_price(self), i)), self.barrier[i + 1])

\* i in (np.array(list(self.Lizard.keys())) - 1)
cond_is_lizard(self, i) == (i + 1) \in DOMAIN self.Lizard

Lizard_cond_bonus(self, i) ==
    /\ cond_is_lizard(self, i)
    /\ RGreater(np_min(iloc(get_ratio_price(self), i)), self.Lizard[i + 1])

lizard_payoff(self, i) ==
    RDiv(RMul(RInt(self.periods * (i + 1) * self.Lizard_coupon), self.coupon),
         RInt(MonthsPerYear))

RECURSIVE LizardELS_loop(_, _)
LizardELS_loop(self, i) ==
    IF i >= Len(self.barrier) THEN None
    ELSE IF Simple_cond_KO(self, i)
         THEN <<self.periods * (i + 1), coupon_payoff(self, i), <<"EarlyRedeemed">> >>
    ELSE IF Lizard_cond_not_KO(self, i) /\ Lizard_cond_bonus(self, i)
         THEN <<self.periods * (i + 1), lizard_payoff(self, i), <<"LizardBonus">> >>
    ELSE IF Lizard_cond_not_KO(self, i) /\ i = Len(self.barrier) - 1
         THEN <<self.periods * (i + 1),
                RSub(np_min(iloc(get_ratio_price(self), i)), RInt(1)),
                <<"MaturityRedeemed">> >>
    ELSE LizardELS_loop(self, i + 1)

LizardELS_get_result(self) == LizardELS_loop(self, 0)

LizardELS_init(underlying, start_date, maturity, periods, coupon, barrier, Lizard, Lizard_coupon, df) ==
    [cls |-> "LizardELS", underlying |-> underlying, start_date |-> start_date,
     maturity |-> maturity, periods |-> periods, coupon |-> coupon,
     barrier |-> barrier, df |-> df, Lizard |-> Lizard,
     Lizard_coupon |-> Lizard_coupon]

\* np.min(row - 1): one is subtracted from every ratio of the row first.
np_min_minus_one(row) == np_min([a \in DOMAIN row |-> RSub(row[a], RInt(1))])

RECURSIVE LizardKIELS_loop(_, _, _)
LizardKIELS_loop(self, hit, i) ==
    IF i >= Len(self.barrier) THEN None
    ELSE IF Simple_cond_KO(self, i)
         THEN <<self.periods * (i + 1), coupon_payoff(self, i), <<"EarlyRedeemed">> >>
    ELSE IF Lizard_cond_not_KO(self, i) /\ Lizard_cond_bonus(self, i)
         THEN <<self.periods * (i + 1), lizard_payoff(self, i), <<"LizardBonus">> >>
    ELSE IF Lizard_cond_not_KO(self, i) /\ i = Len(self.barrier) - 1
         THEN IF hit
              THEN <<self.periods * (i + 1),
                     np_min_minus_one(iloc(get_ratio_price(self), i)),
                     <<"KnockInLoss">> >>
              ELSE <<self.periods * (i + 1), coupon_payoff(self, i),
                     <<"NoKnockInRedeemed">> >>
    ELSE LizardKIELS_loop(self, hit, i + 1)

LizardKIELS_get_result(self) == LizardKIELS_loop(self, KI_hit(self), 0)

LizardKIELS_init(underlying, start_date, maturity, periods, coupon, barrier, KI_barrier, Lizard, Lizard_coupon, df) ==
    [cls |-> "LizardKIELS", underlying |-> underlying, start_date |-> start_date,
     maturity |-> maturity, periods |-> periods, coupon |-> coupon,
     barrier |-> barrier, df |-> df, Lizard |-> Lizard,
     Lizard_coupon |-> Lizard_coupon, KI_barrier |-> KI_barrier]

----------------------------------------------------------------------------
(* MPELS                                                                   *)

\* np.ones(maturity * 12) * MP_barrier with position (i+1)*periods - 1 set to
\* barrier[i] for every i (positions are 1-based here).
MP_barrier_list(self) ==
    [m \in 1..(self.maturity * MonthsPerYear) |->
        IF \E i \in 1..Len(self.barrier) : i * self.periods = m
        THEN self.barrier[m \div self.periods]
        ELSE self.MP_barrier]

\* A month accrued also at a ratio equal to the MP barrier.
MP_cond_MP_inclusive(self, i) ==
    RGeq(np_min(iloc(get_ratio_price(self), i)), self.MP_barrier)

MP_cond_MP(self, i) ==
    RGreater(np_min(iloc(get_ratio_price(self), i)), self.MP_barrier)

MP_is_boundary(self, i) == i % self.periods = self.periods - 1

MP_cond_redeem(self, i, v) ==
    RGreater(np_min(iloc(get_ratio_price(self), i)), v)

\* The final loss without the accumulated coupon.
MP_loss_payoff_without_coupon(self, cum_coupon) ==
    RSub(np_min(iloc(get_ratio_price(self), -1)), RInt(1))

MP_loss_payoff(self, cum_coupon) ==
    RAdd(RSub(np_min(iloc(get_ratio_price(self), -1)), RInt(1)), cum_coupon)

\* The loop of get_result over enumerate(self.MP_barrier_list()), from month i
\* on, with the coupon accumulated and the months counted so far.
RECURSIVE MPELS_loop(_, _, _, _, _)
MPELS_loop(self, mpl, i, cum_coupon, num) ==
    IF i >= Len(mpl) THEN None
    ELSE LET v    == mpl[i + 1]
             num1 == IF MP_cond_MP(self, i) THEN num + 1 ELSE num
             cum1 == IF MP_cond_MP(self, i)
                     THEN RAdd(cum_coupon, RDiv(self.coupon, RInt(MonthsPerYear)))
                     ELSE cum_coupon
         IN  IF MP_is_boundary(self, i)
             THEN IF i # Len(mpl) - 1
                  THEN IF MP_cond_redeem(self, i, v)
                       THEN <<i + 1, cum1, <<"MonthlyAccrualRedeemed", num1>> >>
                       ELSE MPELS_loop(self, mpl, i + 1, cum1, num1)
                  ELSE IF MP_cond_redeem(self, i, v)
                       THEN <<i + 1, cum1, <<"MonthlyAccrualMaturityRedeemed", num1>> >>
                       ELSE <<i + 1, MP_loss_payoff(self, cum1),
                              <<"MonthlyAccrualLoss", num1>> >>
             ELSE MPELS_loop(self, mpl, i + 1, cum1, num1)

MPELS_get_result(self) == MPELS_loop(self, MP_barrier_list(self), 0, RInt(0), 0)

MPELS_init(underlying, start_date, maturity, periods, coupon, barrier, MP_barrier, df) ==
    [cls |-> "MPELS", underlying |-> underlying, start_date |-> start_date,
     maturity |-> maturity, periods |-> periods, coupon |-> coupon,
     barrier |-> barrier, df |-> df, MP_barrier |-> MP_barrier]

----------------------------------------------------------------------------
(* The state machine: an object is constructed (Init), get_result is       *)
(* called on it, any number of times.                                      *)

Underlyings == {<<"A", "B">>}
Periods == {6, 12}
MPPeriods == {6}

NObs(maturity, periods) == (maturity * MonthsPerYear) \div periods

\* The barrier schedules drawn for a product observed every p months: the
\* well-formed ones, and the empty one.
Schedules(p) == BarrierLists(NObs(1, p)) \cup (IF p = 6 THEN {<<>>} ELSE {})

InitSimple ==
    \E u \in Underlyings, p \in Periods, c \in Coupons \cup {RInt(0)}, df \in PriceTables :
    \E b \in Schedules(p) :
        els = SimpleELS_init(u, 0, 1, p, c, b, df)

InitErase ==
    \E u \in Underlyings, p \in Periods, c \in Coupons, df \in PriceTables :
    \E b \in Schedules(p), moment \in 1..NObs(1, p) :
        els = Erase3To1ELS_init(u, 0, 1, p, c, b, moment, df)

InitKI ==
    \E u \in Underlyings, p \in Periods, c \in Coupons, df \in LongTables :
    \E b \in Schedules(p), ki \in KIBarriers :
        els = KIELS_init(u, 0, 1, p, c, b, ki, df)

InitLizard ==
    \E u \in Underlyings, p \in Periods, c \in Coupons, df \in PriceTables :
    \E b \in Schedules(p), lz \in LizardDicts(NObs(1, p)), lc \in LizardCoupons :
        els = LizardELS_init(u, 0, 1, p, c, b, lz, lc, df)

InitLizardKI ==
    \E u \in Underlyings, p \in Periods, c \in Coupons, df \in PriceTables :
    \E b \in Schedules(p), lz \in LizardDicts(NObs(1, p)), lc \in LizardCoupons,
       ki \in KIBarriers :
        els = LizardKIELS_init(u, 0, 1, p, c, b, ki, lz, lc, df)

InitMP ==
    \E u \in Underlyings, p \in MPPeriods, c \in Coupons, df \in MonthlyTables :
    \E b \in Schedules(p), mp \in MPBarriers :
        els = MPELS_init(u, 0, 1, p, c, b, mp, df)

Init ==
    /\ \/ InitSimple
       \/ InitErase
       \/ InitKI
       \/ InitLizard
       \/ InitLizardKI
       \/ InitMP
    /\ result = None
    /\ pc = "constructed"
    /\ rng = None
    /\ sims = None

Returned(r) ==
    /\ result' = r
    /\ pc' = "returned"
    /\ UNCHANGED <<els, rng, sims>>

CallSimpleELS == els.cls = "SimpleELS" /\ Returned(SimpleELS_get_result(els))

\* The only assignment get_result reaches outside the constructors is the one
\* of get_ratio_3to1_price (line 121); the object is left as that leaves it.
CallErase3To1ELS ==
    /\ els.cls = "Erase3To1ELS"
    /\ result' = Erase3To1ELS_get_result(els)
    /\ pc' = "returned"
    /\ els' = [els EXCEPT !.df = df_after_3to1(els)]
    /\ UNCHANGED <<rng, sims>>

CallKIELS == els.cls = "KIELS" /\ Returned(KIELS_get_result(els))

CallLizardELS == els.cls = "LizardELS" /\ Returned(LizardELS_get_result(els))

CallLizardKIELS == els.cls = "LizardKIELS" /\ Returned(LizardKIELS_get_result(els))

CallMPELS == els.cls = "MPELS" /\ Returned(MPELS_get_result(els))

Next ==
    \/ CallSimpleELS
    \/ CallErase3To1ELS
    \/ CallKIELS
    \/ CallLizardELS
    \/ CallLizardKIELS
    \/ CallMPELS

Spec == Init /\ [][Next]_vars

----------------------------------------------------------------------------
(* What the claims speak of, read off the price table itself.              *)

Done == pc = "returned"

IsResult(r) == Len(r) = 3
Months(r) == r[1]
Payoff(r) == r[2]
Kind(r) == r[3][1]

\* The 0-based observation indices of a product and the date of each.
ObsStep(self) == IF self.cls = "MPELS" THEN 1 ELSE self.periods
ObsCount(self) == (self.maturity * MonthsPerYear) \div ObsStep(self)
ObsIndices(self) == 0..(ObsCount(self) - 1)
ObsDate(self, i) == self.start_date + (i + 1) * ObsStep(self)

RatioOf(self, asset, date) == Rat(self.df[date][asset], self.df[self.start_date][asset])

AssetsOf(self) == {self.underlying[a] : a \in 1..Len(self.underlying)}

IsMin(x, S) == x \in S /\ \A y \in S : ~RLess(y, x)

\* worst_i: the minimum over the assets of the ratio at observation i.
Worst(self, i) ==
    CHOOSE x \in {RatioOf(self, a, ObsDate(self, i)) : a \in AssetsOf(self)} :
        IsMin(x, {RatioOf(self, a, ObsDate(self, i)) : a \in AssetsOf(self)})

LastIndex(self) == ObsCount(self) - 1

\* A product definition as the data model requires it: one barrier per
\* observation, at least one observation, every barrier in (0, 1].
WellFormed(self) ==
    /\ Len(self.barrier) >= 1
    /\ Len(self.barrier) = NObs(self.maturity, self.periods)
    /\ \A k \in 1..Len(self.barrier) :
          RLess(RInt(0), self.barrier[k]) /\ ~RLess(RInt(1), self.barrier[k])
    /\ \A d \in DOMAIN self.df : \A a \in AssetsOf(self) : self.df[d][a] > 0

Redeems(self, i) == RGreater(Worst(self, i), self.barrier[i + 1])

CouponFor(self, months) == RDiv(RMul(RInt(months), self.coupon), RInt(12))

HasLizard(self) == self.cls \in {"LizardELS", "LizardKIELS"}

\* The lizard bonus as the code pays it at index j: listed, strictly below the
\* barrier, above the lizard threshold.
BonusFires(self, j) ==
    /\ HasLizard(self)
    /\ (j + 1) \in DOMAIN self.Lizard
    /\ RLess(Worst(self, j), self.barrier[j + 1])
    /\ RGreater(Worst(self, j), self.Lizard[j + 1])

\* Whether the minimum ratio over every asset and every date of the table
\* from the start date to the last observation date is below the KI barrier.
KnockedIn(self) ==
    \E d \in DOMAIN self.df : \E a \in AssetsOf(self) :
        /\ self.start_date <= d
        /\ d <= ObsDate(self, LastIndex(self))
        /\ RLess(RatioOf(self, a, d), self.KI_barrier)

----------------------------------------------------------------------------
(* C1.  Earliest early redemption wins: in SimpleELS and KIELS (and in      *)
(* LizardELS and LizardKIELS when no lizard bonus fired at a smaller       *)
(* index), if i is the smallest observation index with worst_i >           *)
(* barrier[i], the result is (periods*(i+1), periods*(i+1)*coupon/12,      *)
(* EarlyRedeemed), whatever the later ratios are and whether or not a      *)
(* knock-in occurred.                                                      *)

FirstRedeeming(self, i) ==
    /\ i \in ObsIndices(self)
    /\ Redeems(self, i)
    /\ \A j \in 0..(i - 1) : ~Redeems(self, j) /\ ~BonusFires(self, j)

C1_EarliestRedemptionWins ==
    (Done /\ WellFormed(els)
        /\ els.cls \in {"SimpleELS", "KIELS", "LizardELS", "LizardKIELS"})
    => \A i \in ObsIndices(els) :
          FirstRedeeming(els, i)
          => result = <<els.periods * (i + 1),
                        CouponFor(els, els.periods * (i + 1)),
                        <<"EarlyRedeemed">> >>

\* A knocked-in KIELS product redeemed at the first observation although its
\* worst ratio at the last observation is below the last barrier.
C1_Witness ==
    /\ Done /\ WellFormed(els) /\ els.cls = "KIELS"
    /\ Len(els.barrier) = 2
    /\ FirstRedeeming(els, 0)
    /\ KnockedIn(els)
    /\ RLess(Worst(els, 1), els.barrier[2])
    /\ Kind(result) = "EarlyRedeemed"

----------------------------------------------------------------------------
(* C2.  Every evaluation resolves: for every well-formed input, get_result *)
(* of each variant returns an EvaluationResult by the final observation,   *)
(* also when a worst ratio is exactly equal to a barrier.                  *)

C2_EveryEvaluationResolves ==
    (Done /\ WellFormed(els)) => IsResult(result)

----------------------------------------------------------------------------
(* C3.  Plain variant at maturity: when no observation index i has         *)
(* worst_i > barrier[i] and worst_last < barrier[last], SimpleELS          *)
(* get_result returns (periods*N, worst_last - 1, MaturityRedeemed).       *)

NeverRedeems(self) == \A i \in ObsIndices(self) : ~Redeems(self, i)

BelowLast(self) ==
    RLess(Worst(self, LastIndex(self)), self.barrier[Len(self.barrier)])

C3_PlainMaturityLoss ==
    (Done /\ WellFormed(els) /\ els.cls = "SimpleELS"
        /\ NeverRedeems(els) /\ BelowLast(els))
    => result = <<els.periods * Len(els.barrier),
                  RSub(Worst(els, LastIndex(els)), RInt(1)),
                  <<"MaturityRedeemed">> >>

\* Two observations with different barriers, the loss taken at the second.
C3_Witness ==
    /\ Done /\ WellFormed(els) /\ els.cls = "SimpleELS"
    /\ Len(els.barrier) = 2 /\ els.barrier[1] # els.barrier[2]
    /\ NeverRedeems(els) /\ BelowLast(els)
    /\ Worst(els, 0) # Worst(els, 1)
    /\ Kind(result) = "MaturityRedeemed"

----------------------------------------------------------------------------
(* C4.  Knock-in split at maturity: in KIELS get_result, when early        *)
(* redemption never triggers and worst_last < barrier[last], the outcome   *)
(* is KnockInLoss with payoff worst_last - 1 if the minimum ratio over     *)
(* every asset and every date of the table from the start date to the      *)
(* final observation date is below KI_barrier, and NoKnockInRedeemed with  *)
(* payoff periods*N*coupon/12 otherwise; a knock-in on a date that is not  *)
(* an observation date counts.                                             *)

C4_KnockInSplit ==
    (Done /\ WellFormed(els) /\ els.cls = "KIELS"
        /\ NeverRedeems(els) /\ BelowLast(els))
    => result = IF KnockedIn(els)
                THEN <<els.periods * Len(els.barrier),
                       RSub(Worst(els, LastIndex(els)), RInt(1)),
                       <<"KnockInLoss">> >>
                ELSE <<els.periods * Len(els.barrier),
                       CouponFor(els, els.periods * Len(els.barrier)),
                       <<"NoKnockInRedeemed">> >>

\* The only ratio below the KI barrier is on a date that is not observed.
C4_Witness ==
    /\ Done /\ WellFormed(els) /\ els.cls = "KIELS"
    /\ NeverRedeems(els) /\ BelowLast(els)
    /\ KnockedIn(els)
    /\ \A i \in ObsIndices(els) : ~RLess(Worst(els, i), els.KI_barrier)
    /\ Kind(result) = "KnockInLoss"

----------------------------------------------------------------------------
(* C5.  Lizard bonus: in LizardELS and LizardKIELS get_result, at the      *)
(* first observation index i that is listed in the lizard schedule (key    *)
(* i+1) and at which the early-redemption test fails (worst_i <=           *)
(* barrier[i]) while worst_i > Lizard[i+1], with no termination at a       *)
(* smaller index, the result is (periods*(i+1),                            *)
(* periods*(i+1)*Lizard_coupon*coupon/12, LizardBonus); an index that is   *)
(* not in the lizard schedule never yields LizardBonus.                    *)

\* The bonus as the claim grants it: listed, not above the barrier, above the
\* lizard threshold.
BonusDue(self, i) ==
    /\ (i + 1) \in DOMAIN self.Lizard
    /\ ~Redeems(self, i)
    /\ RGreater(Worst(self, i), self.Lizard[i + 1])

C5_LizardBonus ==
    (Done /\ WellFormed(els) /\ HasLizard(els))
    => /\ \A i \in ObsIndices(els) :
            (BonusDue(els, i)
                /\ \A j \in 0..(i - 1) : ~Redeems(els, j) /\ ~BonusDue(els, j))
            => result = <<els.periods * (i + 1),
                          CouponFor(els, els.periods * (i + 1) * els.Lizard_coupon),
                          <<"LizardBonus">> >>
       /\ (IsResult(result) /\ Kind(result) = "LizardBonus")
            => (Months(result) \div els.periods) \in DOMAIN els.Lizard

----------------------------------------------------------------------------
(* C6.  Worst-performer lock.  In Erase3To1ELS with lock observation       *)
(* moment, let w be the asset with the minimum ratio at the lock           *)
(* observation; then for every observation from the lock observation on    *)
(* the worst-of value used by get_result is asset w's own ratio, and       *)
(* whenever no early redemption happened before the lock observation and   *)
(* asset w's own ratio was not above the barrier at any observation before *)
(* the lock observation either, get_result returns what                    *)
(* SimpleELS.get_result returns on the single underlying w with the same   *)
(* barrier schedule, period and coupon.                                    *)

LockIndex(self) == self.moment - 1

\* w is the one asset with the minimum ratio at the lock observation.
IsLockedAsset(self, w) ==
    /\ w \in AssetsOf(self)
    /\ \A a \in AssetsOf(self) \ {w} :
          RLess(RatioOf(self, w, ObsDate(self, LockIndex(self))),
                RatioOf(self, a, ObsDate(self, LockIndex(self))))

\* The worst-of value get_result compares with barrier[i].
LockedWorst(self, i) == np_min(iloc(get_ratio_3to1_price(self), i))

SingleAsset(self, w) ==
    SimpleELS_init(<<w>>, self.start_date, self.maturity, self.periods,
                   self.coupon, self.barrier, self.df)

NoRedemptionBeforeLock(self) ==
    \A j \in 0..(LockIndex(self) - 1) : ~Redeems(self, j)

AloneNotAboveBeforeLock(self, w) ==
    \A j \in 0..(LockIndex(self) - 1) :
        ~RGreater(RatioOf(self, w, ObsDate(self, j)), self.barrier[j + 1])

FrozenOnto(self, w) ==
    \A i \in ObsIndices(self) :
        i >= LockIndex(self) => LockedWorst(self, i) = RatioOf(self, w, ObsDate(self, i))

C6_LockEquivalence ==
    (Done /\ WellFormed(els) /\ els.cls = "Erase3To1ELS")
    => \A w \in AssetsOf(els) :
          IsLockedAsset(els, w)
          => /\ FrozenOnto(els, w)
             /\ (NoRedemptionBeforeLock(els) /\ AloneNotAboveBeforeLock(els, w))
                   => result = SimpleELS_get_result(SingleAsset(els, w))

\* C6 as it was made: the equivalence holds whenever the basket did not
\* redeem before the lock observation.
C6_AsClaimed ==
    (Done /\ WellFormed(els) /\ els.cls = "Erase3To1ELS")
    => \A w \in AssetsOf(els) :
          IsLockedAsset(els, w)
          => /\ FrozenOnto(els, w)
             /\ NoRedemptionBeforeLock(els)
                   => result = SimpleELS_get_result(SingleAsset(els, w))

\* Locked at the first of two observations onto an asset that is not the
\* worst one at the second, where the locked product then redeems.
C6_Witness ==
    /\ Done /\ WellFormed(els) /\ els.cls = "Erase3To1ELS"
    /\ els.moment = 1 /\ Len(els.barrier) = 2
    /\ \E w \in AssetsOf(els) :
          /\ IsLockedAsset(els, w)
          /\ RGreater(RatioOf(els, w, ObsDate(els, 1)), Worst(els, 1))
          /\ RGreater(RatioOf(els, w, ObsDate(els, 1)), els.barrier[2])
          /\ ~RGreater(Worst(els, 1), els.barrier[2])
    /\ ~Redeems(els, 0)
    /\ result = <<els.periods * 2, CouponFor(els, els.periods * 2), <<"EarlyRedeemed">> >>

----------------------------------------------------------------------------
(* C7.  Monthly-Pay accrual and early redemption: MPELS.get_result         *)
(* terminates only at period-boundary months (0-based month m with         *)
(* m % periods = periods - 1); it terminates at the earliest non-final     *)
(* boundary month m whose worst ratio exceeds the product barrier of that  *)
(* boundary, returning (m+1, accumulated, MonthlyAccrualRedeemed), where   *)
(* accumulated is coupon/12 times the number of months 0..m whose worst    *)
(* ratio is > MP_barrier; a boundary month that fails its barrier does not *)
(* terminate.                                                              *)

IsBoundary(self, m) == m % self.periods = self.periods - 1

NonFinalBoundaries(self) ==
    {m \in ObsIndices(self) : IsBoundary(self, m) /\ m # LastIndex(self)}

BoundaryBarrier(self, m) == self.barrier[(m + 1) \div self.periods]

MPRedeemsAt(self, m) == RGreater(Worst(self, m), BoundaryBarrier(self, m))

\* The number of months 0..m whose worst ratio is above the MP barrier.
Accrued(self, m) ==
    Cardinality({k \in 0..m : RGreater(Worst(self, k), self.MP_barrier)})

AccruedCoupon(self, m) == RMul(RDiv(self.coupon, RInt(12)), RInt(Accrued(self, m)))

C7_MonthlyPayEarlyRedemption ==
    (Done /\ WellFormed(els) /\ els.cls = "MPELS")
    => /\ IsResult(result)
       /\ IsBoundary(els, Months(result) - 1)
       /\ \A m \in NonFinalBoundaries(els) :
            /\ (MPRedeemsAt(els, m)
                  /\ \A k \in NonFinalBoundaries(els) : k < m => ~MPRedeemsAt(els, k))
               => /\ Months(result) = m + 1
                  /\ Payoff(result) = AccruedCoupon(els, m)
                  /\ Kind(result) = "MonthlyAccrualRedeemed"
            /\ ~MPRedeemsAt(els, m) => Months(result) # m + 1

\* Redeemed at a boundary month after months that accrued and months that
\* did not.
C7_Witness ==
    /\ Done /\ WellFormed(els) /\ els.cls = "MPELS"
    /\ Kind(result) = "MonthlyAccrualRedeemed"
    /\ Accrued(els, Months(result) - 1) > 0
    /\ Accrued(els, Months(result) - 1) < Months(result)
    /\ Payoff(result) = AccruedCoupon(els, Months(result) - 1)

----------------------------------------------------------------------------
(* C8.  Monthly-Pay final boundary: when MPELS.get_result reaches the      *)
(* final month without early redemption, it returns month count            *)
(* maturity*12 and either the accumulated coupon with a redemption outcome *)
(* when the final month's worst ratio is > barrier[last], or               *)
(* worst_last - 1 + accumulated coupon with outcome MonthlyAccrualLoss     *)
(* otherwise, the accumulated coupon counting every month of the life      *)
(* whose worst ratio is > MP_barrier.                                      *)

RedemptionKinds ==
    {"EarlyRedeemed", "NoKnockInRedeemed", "LizardBonus",
     "MonthlyAccrualRedeemed", "MonthlyAccrualMaturityRedeemed"}

LossKinds == {"MaturityRedeemed", "KnockInLoss", "MonthlyAccrualLoss"}

NoEarlyMPRedemption(self) == \A m \in NonFinalBoundaries(self) : ~MPRedeemsAt(self, m)

C8_MonthlyPayFinal ==
    (Done /\ WellFormed(els) /\ els.cls = "MPELS" /\ NoEarlyMPRedemption(els))
    => /\ IsResult(result)
       /\ Months(result) = els.maturity * 12
       /\ IF MPRedeemsAt(els, LastIndex(els))
          THEN /\ Payoff(result) = AccruedCoupon(els, LastIndex(els))
               /\ Kind(result) \in RedemptionKinds
          ELSE /\ Payoff(result) =
                    RAdd(RSub(Worst(els, LastIndex(els)), RInt(1)),
                         AccruedCoupon(els, LastIndex(els)))
               /\ Kind(result) = "MonthlyAccrualLoss"

\* A loss at the final month after a failed boundary, with some months
\* accrued and some not.
C8_Witness ==
    /\ Done /\ WellFormed(els) /\ els.cls = "MPELS" /\ NoEarlyMPRedemption(els)
    /\ NonFinalBoundaries(els) # {}
    /\ Kind(result) = "MonthlyAccrualLoss"
    /\ Accrued(els, LastIndex(els)) > 0
    /\ Accrued(els, LastIndex(els)) < els.maturity * 12
    /\ Worst(els, LastIndex(els)) # Worst(els, 0)

----------------------------------------------------------------------------
(* C9.  Payoff sign by outcome, for every variant and every well-formed    *)
(* input with coupon >= 0: a MaturityRedeemed or KnockInLoss result has a  *)
(* payoff equal to the last worst ratio minus 1 and strictly negative; a   *)
(* MonthlyAccrualLoss result has the payoff worst_last - 1 + accumulated   *)
(* coupon, which is at most the accumulated coupon and may be zero or      *)
(* positive; a redemption result has a non-negative payoff.                *)

IsLoss(r) == IsResult(r) /\ Kind(r) \in LossKinds
IsRedemption(r) == IsResult(r) /\ Kind(r) \in RedemptionKinds

\* The worst-of values a loss can be taken on: the worst ratio at the last
\* observation, which in the locked product is the ratio of one asset there.
LossRatios(self) ==
    IF self.cls = "Erase3To1ELS"
    THEN {RatioOf(self, a, ObsDate(self, LastIndex(self))) : a \in AssetsOf(self)}
    ELSE {Worst(self, LastIndex(self))}

RatioMinusOne(self, r) ==
    /\ \E x \in LossRatios(self) : Payoff(r) = RSub(x, RInt(1))
    /\ RLess(Payoff(r), RInt(0))

C9_PayoffSign ==
    (Done /\ WellFormed(els) /\ RGeq(els.coupon, RInt(0)))
    => /\ (IsLoss(result) /\ Kind(result) # "MonthlyAccrualLoss")
            => RatioMinusOne(els, result)
       /\ (IsLoss(result) /\ Kind(result) = "MonthlyAccrualLoss")
            => /\ Payoff(result) =
                    RAdd(RSub(Worst(els, LastIndex(els)), RInt(1)),
                         AccruedCoupon(els, LastIndex(els)))
               /\ ~RGreater(Payoff(result), AccruedCoupon(els, LastIndex(els)))
       /\ IsRedemption(result) => RGeq(Payoff(result), RInt(0))

\* C9 as it was made: the payoff of every loss, the monthly-pay loss
\* included, is a worst ratio minus 1 and strictly negative.
C9_AsClaimed ==
    (Done /\ WellFormed(els) /\ RGeq(els.coupon, RInt(0)))
    => /\ IsLoss(result) => RatioMinusOne(els, result)
       /\ IsRedemption(result) => RGeq(Payoff(result), RInt(0))

\* A monthly-pay loss whose payoff is not negative.
C9_Witness ==
    /\ Done /\ WellFormed(els) /\ els.cls = "MPELS"
    /\ IsLoss(result)
    /\ RGeq(Payoff(result), RInt(0))
    /\ RGreater(AccruedCoupon(els, LastIndex(els)), RInt(0))

----------------------------------------------------------------------------
(* C10.  Zero observations are rejected: get_result of any variant on a    *)
(* product whose barrier schedule is empty fails with an                   *)
(* EmptyBarrierSchedule error, rather than returning a result or returning *)
(* nothing.                                                                *)

C10_EmptyScheduleRejected ==
    (Done /\ els.barrier = <<>>) => result = <<"raise", "EmptyBarrierSchedule">>

----------------------------------------------------------------------------
(* Path simulator (src/process/GBM.py).                                    *)
(*                                                                         *)
(* rng is the state of numpy's process-wide generator, the one np.random   *)
(* seeds and draws from.  The Mersenne Twister is abstracted to a          *)
(* generator of few states that keeps what the simulator relies on: the    *)
(* next state and the sample are functions of the state, and seeding sets  *)
(* the state to a function of the seed.  Dates are counted in days.        *)

FixedSeed == 1000

RngStates == 0..7

np_random_seed(seed) == seed % Cardinality(RngStates)

rng_next(s) == (5 * s + 3) % Cardinality(RngStates)

normal_of(s) == (s % 3) - 1

\* np.random.standard_normal(m) on generator state s: the m samples and the
\* state the generator is left in.
RECURSIVE standard_normal(_, _)
standard_normal(s, m) ==
    IF m = 0 THEN [sample |-> <<>>, state |-> s]
    ELSE LET rest == standard_normal(rng_next(s), m - 1)
         IN  [sample |-> <<normal_of(rng_next(s))>> \o rest.sample, state |-> rest.state]

\* A seed that reaches only a generator of the call's own.
rng_after_seed_local(s, fixed_seed) == s

\* The process-wide generator after the seeding lines of gen_path.
rng_after_seed(s, fixed_seed) ==
    IF fixed_seed THEN np_random_seed(FixedSeed) ELSE s

random_with_daily_params(u_i, sigma_i, random) ==
    [k \in 1..Len(random) |->
        RAdd(RSub(u_i, RMul(Rat(1, 2), RMul(sigma_i, sigma_i))),
             RMul(sigma_i, RInt(random[k])))]

\* The loop of gen_path from asset i on, the generator in state s.
RECURSIVE gen_path_loop(_, _, _, _, _, _, _)
gen_path_loop(s, i, u_num, m, u, sigma, path_dict) ==
    IF i >= u_num THEN path_dict
    ELSE LET random == standard_normal(s, m)
         IN  gen_path_loop(random.state, i + 1, u_num, m, u, sigma,
                 Append(path_dict, random_with_daily_params(u[i + 1], sigma[i + 1], random.sample)))

\* gen_path run without another draw in between, the generator in state s.
gen_path(s, u_num, m, u, sigma, fixed_seed) ==
    gen_path_loop(rng_after_seed(s, fixed_seed), 0, u_num, m, u, sigma, <<>>)

np_identity(n) == [i \in 1..n |-> [j \in 1..n |-> IF i = j THEN RInt(1) ELSE RInt(0)]]

\* Square roots of the rationals that have a rational one.
ISqrt(n) == CHOOSE k \in 0..n : k * k = n
RSqrt(x) == Rat(ISqrt(x[1]), ISqrt(x[2]))

\* np.linalg.cholesky: the lower factor L of A = L L^T, entry by entry.
RECURSIVE chol(_, _, _), chol_sum(_, _, _, _)
chol_sum(A, i, j, k) ==
    IF k = 0 THEN RInt(0)
    ELSE RAdd(RMul(chol(A, i, k), chol(A, j, k)), chol_sum(A, i, j, k - 1))

chol(A, i, j) ==
    IF j > i THEN RInt(0)
    ELSE IF i = j THEN RSqrt(RSub(A[i][i], chol_sum(A, i, i, i - 1)))
    ELSE RDiv(RSub(A[i][j], chol_sum(A, i, j, j - 1)), chol(A, j, j))

np_linalg_cholesky(A) == [i \in 1..Len(A) |-> [j \in 1..Len(A) |-> chol(A, i, j)]]

RECURSIVE row_times_column(_, _, _, _)
row_times_column(row, mat, t, j) ==
    IF j = 0 THEN RInt(0)
    ELSE RAdd(RMul(row[j], mat[j][t]), row_times_column(row, mat, t, j - 1))

np_matmul(a, b) ==
    [i \in 1..Len(a) |-> [t \in 1..Len(b[1]) |-> row_times_column(a[i], b, t, Len(b))]]

corr_or_identity(path, corr) == IF corr = None THEN np_identity(Len(path)) ELSE corr

\* Whether gen_path_matrix raises its Exception for the shapes it is given.
gen_path_matrix_raises(path, corr) ==
    LET c == corr_or_identity(path, corr)
    IN  \/ Len(path) # Len(c)
        \/ \E i \in 1..Len(c) : Len(c[i]) # Len(path)
        \/ \E i \in 1..Len(path) : Len(path[i]) # Len(path[1])

gen_path_matrix(path, corr) ==
    np_matmul(np_linalg_cholesky(corr_or_identity(path, corr)), path)

RECURSIVE np_cumsum_at(_, _)
np_cumsum_at(row, t) == IF t = 0 THEN RInt(0) ELSE RAdd(row[t], np_cumsum_at(row, t - 1))

\* The real number s0 * e^x, kept as the pair it is computed from: for a
\* rational x and s0 # 0 different pairs are different reals.
scaled_exp(s0, x) == [s0 |-> s0, exponent |-> x]

s_val_or_ones(path_matrix, s_val) ==
    IF s_val = None THEN [a \in 1..Len(path_matrix) |-> 1] ELSE s_val

gen_price_matrix_raises(path_matrix, s_val) ==
    Len(s_val_or_ones(path_matrix, s_val)) # Len(path_matrix)

gen_price_matrix(path_matrix, s_val) ==
    LET s == s_val_or_ones(path_matrix, s_val)
    IN  [a \in 1..Len(path_matrix) |->
            <<scaled_exp(s[a], RInt(0))>> \o
            [t \in 1..Len(path_matrix[a]) |->
                scaled_exp(s[a], np_cumsum_at(path_matrix[a], t))]]

cvt_to_df(s, price_matrix, start) ==
    [d \in {start + i : i \in 0..(Len(price_matrix[1]) - 1)} |->
        [name \in {s[a] : a \in 1..Len(s)} |->
            price_matrix[CHOOSE a \in 1..Len(s) : s[a] = name][d - start + 1]]]

\* GBM_path_for_pricing after gen_path has returned path_dict.
price_df_of(args, path_dict) ==
    IF gen_path_matrix_raises(path_dict, args.corr) THEN [raise |-> "Exception"]
    ELSE IF gen_price_matrix_raises(gen_path_matrix(path_dict, args.corr), args.s_val)
    THEN [raise |-> "Exception"]
    ELSE [df |-> cvt_to_df(args.s_name,
                     gen_price_matrix(gen_path_matrix(path_dict, args.corr), args.s_val),
                     args.start_date)]

\* GBM_path_for_pricing run without another draw in between, the generator
\* in state s.
GBM_path_for_pricing(s, args) ==
    price_df_of(args, gen_path(s, args.num_s, args.m, args.u, args.sigma, args.fixed_seed))

----------------------------------------------------------------------------
(* The simulator's calls as a state machine.  sims[t] is one call of       *)
(* GBM_path_for_pricing: its arguments, its position in gen_path, and,     *)
(* kept for the claims only, the order in which the calls entered and the  *)
(* generator state each met on entry.  A step is what the call does        *)
(* between two uses of the process-wide generator: the seeding lines, the  *)
(* draw for one asset, the rest of the call after the loop.                *)

MaxSims == 3

Sims == 1..MaxSims

ArgsPlain ==
    [num_s |-> 2, s_name |-> <<"A", "B">>, m |-> 2,
     u |-> <<Rat(1, 100), Rat(1, 100)>>, sigma |-> <<Rat(1, 10), Rat(1, 5)>>,
     start_date |-> 0, corr |-> None, s_val |-> None]

ArgsCorrelated ==
    [ArgsPlain EXCEPT !.corr = <<<<RInt(1), Rat(3, 5)>>, <<Rat(3, 5), RInt(1)>>>>,
                      !.s_val = <<2, 4>>]

WithSeed(a, f) == [x \in DOMAIN a \cup {"fixed_seed"} |-> IF x = "fixed_seed" THEN f ELSE a[x]]

SimArgs == {WithSeed(a, f) : a \in {ArgsPlain, ArgsCorrelated}, f \in BOOLEAN}

\* The states the generator may be in when the process starts (numpy seeds
\* it from the operating system's entropy).
EntropyStates == {1, 6}

Idle(args) ==
    [args |-> args, pc |-> "idle", i |-> 0, path_dict |-> <<>>, out |-> None,
     order |-> 0, rng_at_entry |-> None]

\* The process before the first of the calls of the set S is made.
InitGBM(S) ==
    /\ els = None
    /\ result = None
    /\ pc = "simulating"
    /\ rng \in EntropyStates
    /\ \E a \in [S -> SimArgs] : sims = [t \in S |-> Idle(a[t])]

Entered == {t \in DOMAIN sims : sims[t].pc # "idle"}

\* gen_path, lines 51-57.
GenPathEnter(t) ==
    /\ sims[t].pc = "idle"
    /\ rng' = rng_after_seed(rng, sims[t].args.fixed_seed)
    /\ sims' = [sims EXCEPT ![t].pc = "draw", ![t].order = Cardinality(Entered) + 1,
                            ![t].rng_at_entry = rng]
    /\ UNCHANGED <<els, result, pc>>

\* gen_path, one turn of the loop of lines 58-62.
GenPathDraw(t) ==
    /\ sims[t].pc = "draw"
    /\ sims[t].i < sims[t].args.num_s
    /\ LET a == sims[t].args
           random == standard_normal(rng, a.m)
       IN  /\ rng' = random.state
           /\ sims' = [sims EXCEPT
                  ![t].path_dict = Append(@, random_with_daily_params(
                                       a.u[sims[t].i + 1], a.sigma[sims[t].i + 1], random.sample)),
                  ![t].i = @ + 1]
    /\ UNCHANGED <<els, result, pc>>

\* gen_path returns; the rest of GBM_path_for_pricing, lines 172-178.
GenPathReturn(t) ==
    /\ sims[t].pc = "draw"
    /\ sims[t].i = sims[t].args.num_s
    /\ sims' = [sims EXCEPT ![t].pc = "done",
                            ![t].out = price_df_of(sims[t].args, sims[t].path_dict)]
    /\ UNCHANGED <<els, result, pc, rng>>

\* No call is between its entry and its return, except t.
NoOtherRunning(t) == \A o \in DOMAIN sims \ {t} : sims[o].pc \in {"idle", "done"}

\* The calls made one after the other.
NextSequential ==
    \/ \E t \in DOMAIN sims : NoOtherRunning(t) /\ GenPathEnter(t)
    \/ \E t \in DOMAIN sims : NoOtherRunning(t) /\ GenPathDraw(t)
    \/ \E t \in DOMAIN sims : NoOtherRunning(t) /\ GenPathReturn(t)

InitSequential == InitGBM(Sims)

SpecSequential == InitSequential /\ [][NextSequential]_vars

\* The calls made by concurrent threads.
Threads == {1, 2}

NextConcurrent ==
    \/ \E t \in DOMAIN sims : GenPathEnter(t)
    \/ \E t \in DOMAIN sims : GenPathDraw(t)
    \/ \E t \in DOMAIN sims : GenPathReturn(t)

InitConcurrent == InitGBM(Threads)

SpecConcurrent == InitConcurrent /\ [][NextConcurrent]_vars

----------------------------------------------------------------------------
(* Claims about the simulator.                                             *)

SimDone(t) == sims[t].pc = "done"
Seeded(t) == sims[t].args.fixed_seed
Before(t1, t2) == sims[t1].order < sims[t2].order

\* C11: calls made one after the other: two calls of GBM_path_for_pricing
\* with fixed_seed set and the same other arguments return the same price
\* table, whatever seeded or unseeded calls were made before or between them.
C11_SeededDeterministic ==
    \A t1, t2 \in DOMAIN sims :
        (SimDone(t1) /\ SimDone(t2) /\ Seeded(t1) /\ Seeded(t2)
            /\ sims[t1].args = sims[t2].args)
        => sims[t1].out = sims[t2].out

\* Two seeded calls with the same arguments have returned, an unseeded call
\* was made between them and returned another table.
C11_Witness ==
    /\ pc = "simulating"
    /\ \E t1, t2, t3 \in DOMAIN sims :
        /\ SimDone(t1) /\ SimDone(t2) /\ SimDone(t3)
        /\ Before(t1, t2) /\ Before(t2, t3)
        /\ Seeded(t1) /\ ~Seeded(t2) /\ Seeded(t3)
        /\ sims[t1].args = sims[t3].args
        /\ sims[t2].args = WithSeed(sims[t1].args, FALSE)
        /\ sims[t2].out # sims[t1].out

\* The table the call t returns when no other call uses the generator
\* between t's entry and its return.
TableAlone(t) == GBM_path_for_pricing(sims[t].rng_at_entry, sims[t].args)

\* C12: calls made by concurrent threads, their draws interleaved: every
\* call returns the table it returns when run alone, a seeded call the table
\* of the seed and an unseeded call the table of the draws that follow the
\* generator state it met, whatever the other call seeds or draws meanwhile.
C12_SeedScopedToCall ==
    \A t \in DOMAIN sims : SimDone(t) => sims[t].out = TableAlone(t)

----------------------------------------------------------------------------
(* Claim about the evaluation's effect on the object.                      *)

====
